---- MODULE Spec2Model ----
(***************************************************************************)
(* Model of LateralTrajectoryOptimizer                                     *)
(* (modules/planning/lattice/trajectory_generation/                        *)
(*  lateral_trajectory_optimizer.cc): the Ipopt TNLP problem formulation   *)
(* of the lateral trajectory, its callbacks, and the result trajectory     *)
(* built by finalize_solution.                                             *)
(*                                                                         *)
(* Conventions.                                                            *)
(*  - C arrays (x, g, x_l, ...) are functions over 0..len-1, so that the   *)
(*    indices of the model are the indices of the source.                  *)
(*  - The triplet buffers of the Jacobian and the Hessian (iRow/jCol and   *)
(*    values) are sequences: position k of the source is position k+1.     *)
(*  - A double is an exact rational <<num, den>> in lowest terms with      *)
(*    den > 0; integers that the program stores in doubles are kept as     *)
(*    integers where only integer values can occur (x, delta_s_, ...).     *)
(***************************************************************************)
EXTENDS Integers, Sequences, FiniteSets, TLC

(* ------------------------------ bounds -------------------------------- *)

\* largest number of stations (corridor pairs) given to the constructor
MaxN == 3

\* number of times the solver calls finalize_solution in one run
MaxFinalize == 2

(* ------------------------- input value sets --------------------------- *)

\* corridor pairs (lower, upper); the last one is malformed (lower > upper)
Corridors == { <<-1, 1>>, <<2, 0>> }

\* step lengths handed to the constructor; 0 is malformed
StepLengths == { 0, 2 }

\* initial state (d, d', d'') handed to the constructor
InitStates == { <<1, -1, 2>> }

\* values a double member that the constructor never assigns may hold
\* (0.0 if the class declaration gives a default initialiser, anything else
\* if it does not)
UninitDoubles == { 0, 1 }

\* the external solver's iterates lie one coordinate step away from the
\* starting point; these are the steps
Deltas == { 1 }

\* values of the caller's variable bound to an out-parameter the callee
\* never assigns
UninitInts == { 0, 14 }

\* objective scaling factors the solver passes to eval_h
ObjFactors == { 0, 1, 2 }

\* Ipopt::SolverReturn values: Converged, Infeasible, IterationLimit, other
Statuses == { "SUCCESS", "LOCAL_INFEASIBILITY", "MAXITER_EXCEEDED",
              "INTERNAL_ERROR" }

(* --------------------------- double arithmetic ------------------------ *)

Abs(a) == IF a < 0 THEN -a ELSE a

RECURSIVE GCD(_, _)
GCD(a, b) == IF b = 0 THEN a ELSE GCD(b, a % b)

\* the rational n/d (d # 0) in lowest terms, denominator positive
Rat(n, d) ==
    LET g == GCD(Abs(n), Abs(d))
        s == IF d < 0 THEN -1 ELSE 1
    IN  << (s * n) \div g, (s * d) \div g >>

R(n) == << n, 1 >>

RAdd(a, b) == Rat(a[1] * b[2] + b[1] * a[2], a[2] * b[2])

RSub(a, b) == Rat(a[1] * b[2] - b[1] * a[2], a[2] * b[2])

RMul(a, b) == Rat(a[1] * b[1], a[2] * b[2])

\* a / b for b # 0
RDiv(a, b) == Rat(a[1] * b[2], a[2] * b[1])

RECURSIVE RSum(_, _, _)
\* f[lo] + ... + f[hi]
RSum(f, lo, hi) == IF lo > hi THEN R(0) ELSE RAdd(f[lo], RSum(f, lo + 1, hi))

(* ------------------------------- state -------------------------------- *)

VARIABLES
    constructed,                \* an optimizer object exists
    args,                       \* the arguments its constructor was given
    num_of_points_,
    num_of_variables_,
    delta_s_,
    d_bounds_,
    w_d_, w_d_prime_, w_d_pprime_, w_d_obs_,
    d_init_, d_prime_init_, d_pprime_init_,
    d_ppprime_max_,
    nnz_jac_g_,
    opt_piecewise_trajectory_,
    phase,                      \* how far the solver is in its start-up
    x,                          \* the solver's current iterate
    jac_structured,             \* the solver has asked for the Jacobian pattern
    finalize_calls,             \* number of finalize_solution calls so far
    call,                       \* the last callback made
    out,                        \* what it wrote to its output buffers
    ret                         \* what it returned

fields == << num_of_points_, num_of_variables_, delta_s_, d_bounds_,
             w_d_, w_d_prime_, w_d_pprime_, w_d_obs_,
             d_init_, d_prime_init_, d_pprime_init_, d_ppprime_max_ >>

solver == << phase, x, jac_structured, finalize_calls >>

vars == << constructed, args, fields, nnz_jac_g_, opt_piecewise_trajectory_,
           solver, call, out, ret >>

(* ---------------- collaborators outside this source file -------------- *)

\* ConstantJerkTrajectory1d(p0, v0, a0, j, param)
ConstantJerkTrajectory1d(p0, v0, a0, j, param) ==
    [ p0 |-> p0, v0 |-> v0, a0 |-> a0, jerk |-> j, param |-> param ]

\* v0 + a0 * s + 1/2 * jerk * s^2 at s = param
end_velocity(t) ==
    RAdd(RAdd(t.v0, RMul(t.a0, t.param)),
         RMul(Rat(1, 2), RMul(t.jerk, RMul(t.param, t.param))))

\* p0 + v0 * s + 1/2 * a0 * s^2 + 1/6 * jerk * s^3 at s = param
end_position(t) ==
    RAdd(RAdd(t.p0, RMul(t.v0, t.param)),
         RAdd(RMul(Rat(1, 2), RMul(t.a0, RMul(t.param, t.param))),
              RMul(Rat(1, 6),
                   RMul(t.jerk, RMul(t.param, RMul(t.param, t.param))))))

\* PiecewiseJerkTrajectory1d(p, v, a): the frozen initial state, no segment
PiecewiseJerkTrajectory1d(p, v, a) ==
    [ init |-> << p, v, a >>, segments |-> << >> ]

\* PiecewiseJerkTrajectory1d::AppendSegment(jerk, param)
AppendSegment(traj, jerk, param) ==
    [ traj EXCEPT !.segments = Append(@, << jerk, param >>) ]

(* --------------------- the callbacks as functions --------------------- *)

\* get_nlp_info: n, m, nnz_h_lag and index_style are assigned; nnz_jac_g is
\* a reference the body never assigns, so the caller's variable keeps the
\* value caller_nnz it had before the call
NlpInfo(caller_nnz) ==
    LET n == num_of_points_ * 3
    IN  [ n |-> n,
          m |-> num_of_points_ * 3,
          nnz_jac_g |-> caller_nnz,
          nnz_h_lag |-> n,
          index_style |-> "C_STYLE" ]

LARGE_VALUE == 10

\* get_bounds_info: the four bound arrays
BoundsInfo ==
    LET N == num_of_points_
    IN  [ x_l |-> [ i \in 0 .. 3 * N - 1 |->
                      IF i < N THEN d_bounds_[i][1] ELSE -LARGE_VALUE ],
          x_u |-> [ i \in 0 .. 3 * N - 1 |->
                      IF i < N THEN d_bounds_[i][2] ELSE LARGE_VALUE ],
          g_l |-> [ r \in 0 .. 3 * N - 1 |->
                      IF r < N - 1 THEN -d_ppprime_max_ * delta_s_ ELSE 0 ],
          g_u |-> [ r \in 0 .. 3 * N - 1 |->
                      IF r < N - 1 THEN d_ppprime_max_ * delta_s_ ELSE 0 ] ]

\* get_starting_point: the x it writes
StartingPoint ==
    LET N == num_of_points_
    IN  [ i \in 0 .. 3 * N - 1 |->
            IF i = 0 THEN d_init_
            ELSE IF i = N THEN d_prime_init_
            ELSE IF i = N + N THEN d_pprime_init_
            ELSE 0 ]

\* (d_bounds_[i].first + d_bounds_[i].second) * 0.5
ObsCenter(i) == RMul(R(d_bounds_[i][1] + d_bounds_[i][2]), Rat(1, 2))

\* eval_f: obj_value
ObjValue(xx) ==
    LET N == num_of_points_
        offset_prime == N
        offset_pprime == 2 * N
        term == [ i \in 0 .. N - 1 |->
                    LET dist == RSub(R(xx[i]), ObsCenter(i))
                    IN  RAdd(RAdd(R(xx[i] * xx[i] * w_d_),
                                  R(xx[offset_prime + i] * xx[offset_prime + i]
                                      * w_d_prime_)),
                             RAdd(R(xx[offset_pprime + i]
                                      * xx[offset_pprime + i] * w_d_pprime_),
                                  RMul(RMul(dist, dist), R(w_d_obs_)))) ]
    IN  RSum(term, 0, N - 1)

\* eval_grad_f: grad_f
GradF(xx) ==
    LET N == num_of_points_
    IN  [ k \in 0 .. 3 * N - 1 |->
            IF k < N
              THEN RAdd(R(2 * xx[k] * w_d_),
                        RMul(R(2),
                             RMul(RSub(R(xx[k]), ObsCenter(k)), R(w_d_obs_))))
            ELSE IF k < 2 * N THEN R(2 * xx[k] * w_d_prime_)
            ELSE R(2 * xx[k] * w_d_pprime_) ]

\* eval_g: g
Constraints(xx) ==
    LET N == num_of_points_
        offset_prime == N
        offset_pprime == 2 * N
        offset == 3 * (N - 1)
        seg(i) ==
            LET p0 == R(xx[i])
                v0 == R(xx[offset_prime + i])
                a0 == R(xx[offset_pprime + i])
                a1 == R(xx[offset_pprime + i + 1])
                j  == RDiv(RSub(a1, a0), R(delta_s_))
            IN  ConstantJerkTrajectory1d(p0, v0, a0, j, R(delta_s_))
    IN  [ r \in 0 .. 3 * N - 1 |->
            IF r < N - 1
              THEN R(xx[offset_pprime + r + 1] - xx[offset_pprime + r])
            ELSE IF r < 2 * (N - 1)
              THEN LET i == r - (N - 1)
                   IN  RSub(end_velocity(seg(i)), R(xx[offset_prime + i + 1]))
            ELSE IF r < offset
              THEN LET i == r - 2 * (N - 1)
                   IN  RSub(end_position(seg(i)), R(xx[i + 1]))
            ELSE IF r = offset THEN R(xx[0] - d_init_)
            ELSE IF r = offset + 1 THEN R(xx[offset_prime] - d_prime_init_)
            ELSE R(xx[offset_pprime] - d_pprime_init_) ]

RECURSIVE Flatten(_, _, _)
\* f[lo] \o ... \o f[hi]
Flatten(f, lo, hi) ==
    IF lo > hi THEN << >> ELSE f[lo] \o Flatten(f, lo + 1, hi)

\* eval_jac_g with values == NULL: the (iRow, jCol) pairs in nz_index order.
\* constraint_index is incremented once per iteration of the three loops and
\* not at all between the three initial-state entries.
JacStructure ==
    LET N == num_of_points_
        acc == [ v \in 0 .. N - 2 |->
                   LET constraint_index == v
                   IN  << << constraint_index, 2 * N + v >>,
                          << constraint_index, 2 * N + v + 1 >> >> ]
        vel == [ v \in 0 .. N - 2 |->
                   LET constraint_index == (N - 1) + v
                   IN  << << constraint_index, N + v >>,
                          << constraint_index, N + v + 1 >>,
                          << constraint_index, 2 * N + v >>,
                          << constraint_index, 2 * N + v + 1 >> >> ]
        pos == [ v \in 0 .. N - 2 |->
                   LET constraint_index == 2 * (N - 1) + v
                   IN  << << constraint_index, v >>,
                          << constraint_index, v + 1 >>,
                          << constraint_index, N + v >>,
                          << constraint_index, 2 * N + v >>,
                          << constraint_index, 2 * N + v + 1 >> >> ]
        constraint_index == 3 * (N - 1)
    IN  Flatten(acc, 0, N - 2) \o Flatten(vel, 0, N - 2)
          \o Flatten(pos, 0, N - 2)
          \o << << constraint_index, 0 >>,
                << constraint_index, N >>,
                << constraint_index, 2 * N >> >>

\* eval_jac_g with a values buffer: the values in nz_index order
JacValues ==
    LET N == num_of_points_
        ds == R(delta_s_)
        acc == [ v \in 0 .. N - 2 |-> << R(1), R(-1) >> ]
        vel == [ v \in 0 .. N - 2 |->
                   << R(1), R(-1), RMul(Rat(1, 2), ds), RMul(Rat(1, 2), ds) >> ]
        pos == [ v \in 0 .. N - 2 |->
                   << R(1), R(-1), ds, RDiv(RMul(ds, ds), R(3)),
                      RDiv(RMul(ds, ds), R(6)) >> ]
    IN  Flatten(acc, 0, N - 2) \o Flatten(vel, 0, N - 2)
          \o Flatten(pos, 0, N - 2) \o << R(1), R(1), R(1) >>

\* eval_h with values == nullptr: the (iRow, jCol) pairs
HessStructure == [ k \in 1 .. 3 * num_of_points_ |-> << k - 1, k - 1 >> ]

\* eval_h with a values buffer; obj_factor and lambda are not read
HessValues(obj_factor) ==
    [ k \in 1 .. 3 * num_of_points_ |->
        IF k - 1 < num_of_points_ THEN R(4) ELSE R(2) ]

\* finalize_solution mutated: the loop starts at i = 0
FinalizeSegmentsFromZero(xx) ==
    LET offset == num_of_points_ * 2
        j == RDiv(R(xx[offset] - xx[offset - 1]), R(delta_s_))
    IN  [ i \in 1 .. num_of_points_ |-> << j, R(delta_s_) >> ]

\* finalize_solution: the (j, delta_s_) pairs it appends, for i = 1 .. N-1;
\* the loop body reads x[offset] and x[offset - 1] and never i
FinalizeSegments(xx) ==
    LET offset == num_of_points_ * 2
        j == RDiv(R(xx[offset] - xx[offset - 1]), R(delta_s_))
    IN  [ i \in 1 .. num_of_points_ - 1 |-> << j, R(delta_s_) >> ]

RECURSIVE AppendAll(_, _, _)
\* AppendSegment called on segs[k], ..., segs[Len(segs)] in turn
AppendAll(traj, segs, k) ==
    IF k > Len(segs) THEN traj
    ELSE AppendAll(AppendSegment(traj, segs[k][1], segs[k][2]), segs, k + 1)

(* ------------------------------ actions ------------------------------- *)

NoArgs == [ d_init |-> 0, d_prime_init |-> 0, d_pprime_init |-> 0,
            delta_s |-> 0, d_bounds |-> << >> ]

\* before the constructor runs: no object, nothing called
Init ==
    /\ constructed = FALSE
    /\ args = NoArgs
    /\ num_of_points_ = 0
    /\ num_of_variables_ = 0
    /\ delta_s_ = 0
    /\ d_bounds_ = << >>
    /\ w_d_ = 0 /\ w_d_prime_ = 0 /\ w_d_pprime_ = 0 /\ w_d_obs_ = 0
    /\ d_init_ = 0 /\ d_prime_init_ = 0 /\ d_pprime_init_ = 0
    /\ d_ppprime_max_ = 0
    /\ nnz_jac_g_ = 0
    /\ opt_piecewise_trajectory_ = PiecewiseJerkTrajectory1d(0, 0, 0)
    /\ x = << >>
    /\ jac_structured = FALSE
    /\ finalize_calls = 0
    /\ phase = "new"
    /\ call = "none"
    /\ out = << >>
    /\ ret = "none"

\* the corridor sequences of n stations handed to the constructor: every
\* station well-formed, or the last one malformed
DBounds(n) ==
    { b \in [ 0 .. n - 1 -> Corridors ] :
        \A i \in 0 .. n - 2 : b[i][1] <= b[i][2] }

\* LateralTrajectoryOptimizer(d_init, d_prime_init, d_pprime_init, delta_s,
\* d_bounds).  The three initial-state arguments go to the result trajectory
\* only; d_init_, d_prime_init_, d_pprime_init_ and d_ppprime_max_ are not
\* assigned.  nnz_jac_g_ is not assigned either; it is only read after
\* eval_jac_g has written it, so its value here is immaterial.  No argument
\* is validated.
Construct ==
    /\ ~constructed
    /\ \E s0 \in InitStates, ds \in StepLengths, n \in 0 .. MaxN :
       \E b \in DBounds(n), u \in UninitDoubles :
          /\ args' = [ d_init |-> s0[1], d_prime_init |-> s0[2],
                       d_pprime_init |-> s0[3], delta_s |-> ds,
                       d_bounds |-> b ]
          /\ opt_piecewise_trajectory_' =
                 PiecewiseJerkTrajectory1d(s0[1], s0[2], s0[3])
          /\ num_of_points_' = n
          /\ num_of_variables_' = 3 * n
          /\ delta_s_' = ds
          /\ d_bounds_' = b
          /\ w_d_' = 1 /\ w_d_prime_' = 1 /\ w_d_pprime_' = 1 /\ w_d_obs_' = 1
          /\ d_init_' = u /\ d_prime_init_' = u /\ d_pprime_init_' = u
          /\ d_ppprime_max_' = u
    /\ constructed' = TRUE
    /\ phase' = "constructed"
    /\ UNCHANGED << nnz_jac_g_, x, jac_structured, finalize_calls, call, out,
                    ret >>

\* the instances the solve protocol is run on: at least two stations and a
\* positive step (the callbacks index x[2N - 1] and divide by delta_s_)
Solvable == constructed /\ num_of_points_ >= 2 /\ delta_s_ > 0

\* the solver starts a solve with get_nlp_info, get_bounds_info and
\* get_starting_point, in this order; after them it holds an iterate and
\* makes the other calls in any order
Started == phase = "started"

Frame == UNCHANGED << constructed, args, fields, opt_piecewise_trajectory_ >>

get_nlp_info ==
    /\ constructed
    /\ phase = "constructed"
    /\ \E caller_nnz \in UninitInts : out' = NlpInfo(caller_nnz)
    /\ call' = "get_nlp_info"
    /\ ret' = "true"
    /\ phase' = "sized"
    /\ Frame
    /\ UNCHANGED << nnz_jac_g_, x, jac_structured, finalize_calls >>

get_bounds_info ==
    /\ Solvable
    /\ phase = "sized"
    /\ out' = BoundsInfo
    /\ call' = "get_bounds_info"
    /\ ret' = "true"
    /\ phase' = "bounded"
    /\ Frame
    /\ UNCHANGED << nnz_jac_g_, x, jac_structured, finalize_calls >>

\* the solver passes the n of get_nlp_info and asks for x only
get_starting_point ==
    /\ Solvable
    /\ phase = "bounded"
    /\ LET n == 3 * num_of_points_
           init_x == TRUE
           init_z == FALSE
           init_lambda == FALSE
       IN  IF /\ n = num_of_points_ * 3
              /\ init_x = TRUE
              /\ init_z = FALSE
              /\ init_lambda = FALSE
             THEN /\ x' = StartingPoint
                  /\ out' = StartingPoint
                  /\ ret' = "false"
                  /\ phase' = "started"
             ELSE /\ x' = x
                  /\ out' = << >>
                  /\ ret' = "abort"
                  /\ phase' = "aborted"
    /\ call' = "get_starting_point"
    /\ Frame
    /\ UNCHANGED << nnz_jac_g_, jac_structured, finalize_calls >>

\* the external solver moves to another iterate: the starting point moved by
\* one step along one coordinate
SolverIterate ==
    /\ Solvable
    /\ Started
    /\ \E c \in DOMAIN x, delta \in Deltas :
          x' = [ StartingPoint EXCEPT ![c] = @ + delta ]
    /\ call' = "none"
    /\ out' = << >>
    /\ Frame
    /\ UNCHANGED << nnz_jac_g_, phase, jac_structured, finalize_calls, ret >>

eval_f ==
    /\ Solvable
    /\ Started
    /\ out' = ObjValue(x)
    /\ call' = "eval_f"
    /\ ret' = "true"
    /\ Frame
    /\ UNCHANGED << nnz_jac_g_, solver >>

eval_grad_f ==
    /\ Solvable
    /\ Started
    /\ out' = GradF(x)
    /\ call' = "eval_grad_f"
    /\ ret' = "true"
    /\ Frame
    /\ UNCHANGED << nnz_jac_g_, solver >>

eval_g ==
    /\ Solvable
    /\ Started
    /\ out' = Constraints(x)
    /\ call' = "eval_g"
    /\ ret' = "true"
    /\ Frame
    /\ UNCHANGED << nnz_jac_g_, solver >>

\* eval_jac_g, values == NULL
eval_jac_g_structure ==
    /\ Solvable
    /\ Started
    /\ out' = JacStructure
    /\ nnz_jac_g_' = Len(JacStructure)
    /\ jac_structured' = TRUE
    /\ call' = "eval_jac_g_structure"
    /\ ret' = "true"
    /\ Frame
    /\ UNCHANGED << phase, x, finalize_calls >>

\* eval_jac_g, values # NULL; the solver asks for values after the pattern
eval_jac_g_values ==
    /\ Solvable
    /\ Started
    /\ jac_structured
    /\ out' = JacValues
    /\ ret' = IF Len(JacValues) = nnz_jac_g_ THEN "true" ELSE "abort"
    /\ call' = "eval_jac_g_values"
    /\ Frame
    /\ UNCHANGED << nnz_jac_g_, solver >>

\* eval_h, values == nullptr
eval_h_structure ==
    /\ Solvable
    /\ Started
    /\ out' = HessStructure
    /\ call' = "eval_h_structure"
    /\ ret' = "true"
    /\ Frame
    /\ UNCHANGED << nnz_jac_g_, solver >>

\* eval_h, values # nullptr
eval_h_values ==
    /\ Solvable
    /\ Started
    /\ \E obj_factor \in ObjFactors :
          out' = [ obj_factor |-> obj_factor,
                   values |-> HessValues(obj_factor) ]
    /\ call' = "eval_h_values"
    /\ ret' = "true"
    /\ Frame
    /\ UNCHANGED << nnz_jac_g_, solver >>

\* finalize_solution(status, n, x, ...): status is not read
finalize_solution ==
    /\ Solvable
    /\ Started
    /\ finalize_calls < MaxFinalize
    /\ \E status \in Statuses : out' = [ status |-> status ]
    /\ finalize_calls' = finalize_calls + 1
    /\ opt_piecewise_trajectory_' =
           AppendAll(opt_piecewise_trajectory_, FinalizeSegments(x), 1)
    /\ call' = "finalize_solution"
    /\ UNCHANGED << constructed, args, fields, nnz_jac_g_, phase, x,
                    jac_structured, ret >>

\* GetOptimalTrajectory: a copy of the result trajectory
GetOptimalTrajectory ==
    /\ constructed
    /\ out' = opt_piecewise_trajectory_
    /\ call' = "GetOptimalTrajectory"
    /\ Frame
    /\ UNCHANGED << nnz_jac_g_, solver, ret >>

Next ==
    \/ Construct
    \/ get_nlp_info
    \/ get_bounds_info
    \/ get_starting_point
    \/ SolverIterate
    \/ eval_f
    \/ eval_grad_f
    \/ eval_g
    \/ eval_jac_g_structure
    \/ eval_jac_g_values
    \/ eval_h_structure
    \/ eval_h_values
    \/ finalize_solution
    \/ GetOptimalTrajectory

Spec == Init /\ [][Next]_vars

(* ------------------------------- claims ------------------------------- *)

\* the segments of the result trajectory
Segments == opt_piecewise_trajectory_.segments

\* the Jacobian coefficient the two eval_jac_g calls report for (row r,
\* column c): the sum of the values whose pattern entry is (r, c), 0 if none
JacEntry(r, c) ==
    LET hit == [ k \in 1 .. Len(JacStructure) |->
                   IF JacStructure[k] = << r, c >> THEN JacValues[k] ELSE R(0) ]
    IN  RSum(hit, 1, Len(JacStructure))

\* the constructor arguments are well-formed: at least two corridor pairs,
\* a positive step length, every pair with lower <= upper
WellFormedArgs ==
    /\ Cardinality(DOMAIN args.d_bounds) >= 2
    /\ args.delta_s > 0
    /\ \A i \in DOMAIN args.d_bounds : args.d_bounds[i][1] <= args.d_bounds[i][2]

\* C1: after finalize_solution on the terminal vector x, the i-th segment it
\* appended (i = 0 .. N-2) has jerk (x[2N+i+1] - x[2N+i]) / delta_s and step
\* length delta_s.
C1_FinalizeJerkOfAdjacentPair ==
    (call = "finalize_solution") =>
        LET N == num_of_points_
            base == Len(Segments) - (N - 1)
        IN  \A i \in 0 .. N - 2 :
                Segments[base + i + 1] =
                    << RDiv(R(x[2 * N + i + 1] - x[2 * N + i]), R(delta_s_)),
                       R(delta_s_) >>

\* C2: on every continuity row r in [0, 3N-3) and every column c, moving x by
\* delta along c changes the residual g[r] by delta times the Jacobian
\* coefficient reported at (r, c).
C2_JacobianExactOnContinuityRows ==
    (call = "eval_g") =>
        LET N == num_of_points_
        IN  \A r \in 0 .. 3 * N - 4, c \in 0 .. 3 * N - 1, delta \in { -1, 1 } :
                RSub(Constraints([ x EXCEPT ![c] = @ + delta ])[r], out[r])
                    = RMul(R(delta), JacEntry(r, c))

\* C3: the structure-only Jacobian call reports the three initial-state
\* entries as (3N-3, 0), (3N-2, N), (3N-1, 2N), and every constraint row in
\* [0, 3N) has a Jacobian entry.
C3_InitialStateRowsDistinct ==
    (call = "eval_jac_g_structure") =>
        LET N == num_of_points_
            nnz == Len(out)
        IN  /\ out[nnz - 2] = << 3 * N - 3, 0 >>
            /\ out[nnz - 1] = << 3 * N - 2, N >>
            /\ out[nnz] = << 3 * N - 1, 2 * N >>
            /\ \A r \in 0 .. 3 * N - 1 : \E k \in 1 .. nnz : out[k][1] = r

\* C4: the initial guess is zero except x0[0] = d0, x0[N] = d0', x0[2N] = d0''
\* for the (d0, d0', d0'') given to the constructor, and the last three
\* residuals are zero exactly when x[0] = d0, x[N] = d0', x[2N] = d0''.
C4_InitialStateIsConstructorState ==
    LET N == num_of_points_
    IN  /\ (call = "get_starting_point") =>
               out = [ i \in 0 .. 3 * N - 1 |->
                         IF i = 0 THEN args.d_init
                         ELSE IF i = N THEN args.d_prime_init
                         ELSE IF i = 2 * N THEN args.d_pprime_init
                         ELSE 0 ]
        /\ (call = "eval_g") =>
               ( ( /\ out[3 * N - 3] = R(0)
                   /\ out[3 * N - 2] = R(0)
                   /\ out[3 * N - 1] = R(0) )
                 <=> ( /\ x[0] = args.d_init
                       /\ x[N] = args.d_prime_init
                       /\ x[2 * N] = args.d_pprime_init ) )

\* C5: the value-fill Hessian call returns 4 * obj_factor on the N entries of
\* the d block and 2 * obj_factor on the 2N entries of the d' and d'' blocks,
\* on the pattern (i, i), i in [0, 3N).
C5_HessianScalesWithObjFactor ==
    LET N == num_of_points_
    IN  /\ (call = "eval_h_structure") =>
               /\ Len(out) = 3 * N
               /\ \A k \in 1 .. 3 * N : out[k] = << k - 1, k - 1 >>
        /\ (call = "eval_h_values") =>
               /\ Len(out.values) = 3 * N
               /\ \A k \in 1 .. 3 * N :
                     out.values[k] =
                         R((IF k - 1 < N THEN 4 ELSE 2) * out.obj_factor)

\* C6: no instance that answers get_nlp_info is produced from malformed
\* constructor input (fewer than two corridor pairs, delta_s <= 0, or a pair
\* with lower > upper).
C6_MalformedInputRejected ==
    (constructed /\ call = "get_nlp_info" /\ ret = "true") => WellFormedArgs

\* C7: after the only finalize_solution call of a solve, made with a status
\* other than SUCCESS, the trajectory the optimizer hands out holds no
\* segment.
C7_NoTrajectoryUnlessConverged ==
    (call = "finalize_solution" /\ finalize_calls = 1
       /\ out.status # "SUCCESS") => Segments = << >>

\* C8: get_nlp_info reports n = m = nnz_h_lag = 3N and nnz_jac_g = 11(N-1)+3,
\* the number of entries the structure-only Jacobian call writes, and the
\* value-fill call writes that many values.
C8_JacobianSizesAgree ==
    LET N == num_of_points_
    IN  /\ (Solvable /\ call = "get_nlp_info") =>
               /\ out.n = 3 * N
               /\ out.m = 3 * N
               /\ out.nnz_h_lag = 3 * N
               /\ out.nnz_jac_g = 11 * (N - 1) + 3
               /\ out.nnz_jac_g = Len(JacStructure)
        /\ (call = "eval_jac_g_structure") => Len(out) = 11 * (N - 1) + 3
        /\ (call = "eval_jac_g_values") => Len(out) = Len(JacStructure)

\* C9: in a solve on a well-formed instance that follows the protocol order,
\* no callback aborts and every callback returns true.
C9_EveryCallbackSucceeds ==
    (Solvable /\ ret # "none") => ret = "true"

\* C10, state part: with k finalize_solution calls made, the trajectory holds
\* k * (N-1) segments, each of step length delta_s.
C10_SegmentCount ==
    constructed =>
        /\ Len(Segments) = finalize_calls * (num_of_points_ - 1)
        /\ \A k \in 1 .. Len(Segments) : Segments[k][2] = R(delta_s_)

\* C10, step part: a step that is not a finalize_solution call leaves the
\* trajectory unchanged; no step changes N, delta_s, the corridor bounds or
\* the weights; every step keeps the segments already appended, in order.
C10_Step ==
    constructed =>
        /\ (call' # "finalize_solution") =>
               opt_piecewise_trajectory_' = opt_piecewise_trajectory_
        /\ UNCHANGED << num_of_points_, delta_s_, d_bounds_,
                        w_d_, w_d_prime_, w_d_pprime_, w_d_obs_ >>
        /\ opt_piecewise_trajectory_'.init = opt_piecewise_trajectory_.init
        /\ Len(opt_piecewise_trajectory_'.segments) >= Len(Segments)
        /\ SubSeq(opt_piecewise_trajectory_'.segments, 1, Len(Segments))
               = Segments

\* C10: the result trajectory changes only through finalize_solution: after
\* k finalize calls it holds exactly k * (N-1) segments of step length
\* delta_s; every other callback leaves the trajectory, N, delta_s, the
\* corridor bounds and the weights unchanged; no segment is ever removed or
\* reordered.
C10_TrajectoryChangesOnlyThroughFinalize ==
    [] C10_SegmentCount /\ [][C10_Step]_vars

\* C10 happens: two finalize calls on a three-station instance, four
\* segments, and an evaluation callback made after them
C10_Witness ==
    /\ num_of_points_ = 3
    /\ finalize_calls = 2
    /\ Len(Segments) = 4
    /\ call = "eval_jac_g_values"

====
